---- MODULE Spec2Model ----
(***************************************************************************)
(* Model of the action dispatcher `handleAction` of the SDK                *)
(* (packages/sdk/src/engine.ts).                                           *)
(*                                                                         *)
(* An invocation is one call of handleAction.  The code from line 84 up to *)
(* the call of the handler (line 141) has no `await`, so it is one step    *)
(* (Dispatch).  The handler is supplied by the add-on: it is modelled as a *)
(* process that may call requestCache (lines 117-121), return a value,     *)
(* throw, or reject with the error of one of its requestCache calls.       *)
(* Every `await` of handleAction after that is a separate step.            *)
(*                                                                         *)
(* Collaborators whose code is outside engine.ts (the cache's inline       *)
(* entries, the Responder, handleTask, the schema validators, the          *)
(* migration registry, validateSignature) are modelled at their interface. *)
(***************************************************************************)
EXTENDS Integers, Sequences, FiniteSets, TLC

\* ---------------------------------------------------------------- bounds
NumInv == 2
MaxCalls == 2
NumKeys == 2

Invs == 1..NumInv
Slots == 1..MaxCalls
Keys == 1..NumKeys

\* ---------------------------------------------------------------- values
Null == "null"
NoKey == 0

Actions == {"task", "selftest", "addon", "repository", "resolve", "captcha", "item", "bogus"}
Sigs == {"good", "none"}
Inputs == {"v1", "bad"}
AddonTypes == {"repository", "worker"}
HandlerOutputs == {Null, "data", "taskRequest", "bad"}

\* Wire values (`any` in the source) are records of one shape.
\*   kind "val": a transformed handler output, kind "err": { error: <text> },
\*   kind "undefined": the JavaScript value undefined.
Val(via, body, ctx) == [kind |-> "val", via |-> via, body |-> body, ctx |-> ctx]
ErrorPayload(text) == [kind |-> "err", via |-> "none", body |-> text, ctx |-> "none"]
Undefined == [kind |-> "undefined", via |-> "none", body |-> "undefined", ctx |-> "none"]

\* Errors are records of one shape; result/error are the CacheFoundError fields.
Err(name, message, silent) ==
    [name |-> name, message |-> message, silent |-> silent, result |-> Undefined, error |-> ""]
NoError == Err("none", "", FALSE)
UnknownActionError == Err("UnknownActionError", "No handler for action", FALSE)
AuthenticationError == Err("AuthenticationError", "Invalid signature", FALSE)
ValidationError == Err("ValidationError", "Validation failed", FALSE)
NothingFound == Err("Error", "Nothing found", FALSE)
AlreadySetUp == Err("Error", "Request cache is already set up", FALSE)
BackendError == Err("BackendError", "Cache backend failed", FALSE)
\* What a handler can reject with: an Error, a SilentError (lines 22-29), an
\* Error with an empty message, and the value undefined (Promise.reject()).
EmptyMessageError == Err("Error", "", FALSE)
ThrownUndefined == Err("undefined", "", FALSE)
HandlerErrors ==
    {Err("Error", "boom", FALSE), Err("SilentError", "quiet", TRUE), EmptyMessageError,
     ThrownUndefined}
\* handleTask's own failure, and the TypeError of reading a property of undefined
TaskFailed == Err("Error", "task failed", FALSE)
PropertyReadError == Err("TypeError", "Cannot read properties of undefined", FALSE)
CacheFoundError(result, error) ==
    [name |-> "CacheFoundError", message |-> "", silent |-> FALSE, result |-> result, error |-> error]

\* line 186, `error.message`: reading a property of undefined (or null) throws
ReadThrows(e) == e.name = "undefined"

\* line 186, `error.message || error`: the message, or the error object itself when
\* the message is empty (evaluated only for an error whose properties can be read)
ErrorObject == "[object Error]"
ErrorText(e) == IF e.message # "" THEN e.message ELSE ErrorObject

\* ---------------------------------------------------------------- state
VARIABLES
    addonType,      \* addon.getType()
    skipAuth,       \* process.env.SKIP_AUTH === "1"
    migrations,     \* the migration registry: action -> directions it defines
    store,          \* the cache backend's dedup state per key
    pc,             \* position of each invocation in handleAction
    req,            \* the invocation: action, input, sig
    sigData,        \* sigData (line 88)
    hInput,         \* input after the request transform (lines 103-107)
    ctxData,        \* migrationCtx.data
    inlineCache,    \* inlineCache (line 116): NoKey is null, else the entry's key
    calls,          \* the handler's requestCache calls
    settled,        \* how the handler's promise settled
    writing,        \* key of the entry whose set/setError is awaited (NoKey: none)
    caught,         \* the error the catch block received / handleAction rejected with
    statusCode,     \* statusCode (line 137)
    output,         \* output (line 138)
    responder,      \* the Responder: state and the sends made through it
    taskCall,       \* arguments handleTask was called with
    logged,         \* console.warn was called
    trace           \* events of the invocation, in order

vars == <<addonType, skipAuth, migrations, store, pc, req, sigData, hInput, ctxData,
          inlineCache, calls, settled, writing, caught, statusCode, output,
          responder, taskCall, logged, trace>>

config == <<addonType, skipAuth, migrations>>

\* ---------------------------------------------------------------- collaborators
Directions == {"request", "response"}
MigActions == {"item"}
Registries ==
    {m \in [Actions -> SUBSET Directions] : \A a \in Actions \ MigActions : m[a] = {}}

\* addon.getActionHandler(action): throws for an action the add-on does not handle.
Handled(action) == action \in Actions \ {"task", "bogus"}

\* validateSignature(sig): the trusted data, or AuthenticationError.
SignatureValid(sig) == sig = "good"

\* migrationCtx.validator.request(input) and migrations[action].request(ctx, input):
\* both reject a malformed input; the adapter also notes the wire version in ctx.data.
RequestAccepts(input) == input # "bad"
ValidatorRequest(input) == [via |-> "validator", body |-> input]
MigrationRequest(input) == [via |-> "migration", body |-> input]
MigrationRequestData(input) == input

\* migrationCtx.validator.response(output) and migrations[action].response(ctx, input, output)
ResponseAccepts(out) == out # "bad"
ValidatorResponse(out) == Val("validator", out, "none")
MigrationResponse(data, input, out) == Val("migration", out, data)

\* The cache backend's state of one key (InlineCacheEntry states, and the key a
\* computation holds while it is current).
Absent == [st |-> "absent", result |-> Undefined, error |-> ""]
InFlight == [st |-> "inflight", result |-> Undefined, error |-> ""]
Found(v) == [st |-> "found", result |-> v, error |-> ""]
FoundError(text) == [st |-> "foundError", result |-> Undefined, error |-> text]

\* entry.set(value) / entry.setError(error) of the entry of key k
EntrySet(s, k, v) == [s EXCEPT ![k] = Found(v)]
RecordedText(e) == IF ReadThrows(e) THEN "undefined" ELSE ErrorText(e)
EntrySetError(s, k, e) == [s EXCEPT ![k] = FoundError(RecordedText(e))]

\* cache.inline(key): what the lookup throws when a prior outcome exists
InlineThrows(entry) ==
    IF entry.st = "found" THEN CacheFoundError(entry.result, "")
    ELSE CacheFoundError(Undefined, entry.error)

\* ---------------------------------------------------------------- handleAction
IsTaskActionTypo(action) == action = "tasks"

\* line 74
IsTaskAction(action) == action = "task"

AuthExemptAnyRepository(action) ==
    \/ skipAuth
    \/ action = "selftest"
    \/ action = "addon"
    \/ action = "repository"

\* lines 88-94: the cases in which validateSignature is not called
AuthExempt(action) ==
    \/ skipAuth
    \/ action = "selftest"
    \/ action = "addon"
    \/ (addonType = "repository" /\ action = "repository")

UsesMigrationEntry(action, dir) == migrations[action] # {}

\* lines 103 and 163: migrations[action]?.request, migrations[action]?.response
UsesMigration(action, dir) == dir \in migrations[action]

DispatchResultAuthFirst(action, input, sig) ==
    LET exempt == AuthExempt(action)
        t1 == IF exempt THEN <<>> ELSE <<"validateSignature">>
        t2 == Append(t1, "getActionHandler")
        mig == UsesMigration(action, "request")
        t3 == Append(t2, IF mig THEN "request:migration" ELSE "request:validator")
        t4 == t3 \o <<"cache.clone", "responder", "handler">>
        sd == IF exempt THEN Null ELSE "trusted"
        base == [err |-> NoError, sigData |-> Null, hInput |-> [via |-> "none", body |-> "none"],
                 data |-> "empty", trace |-> t1]
    IN  IF ~exempt /\ ~SignatureValid(sig) THEN [base EXCEPT !.err = AuthenticationError]
        ELSE IF ~Handled(action)
            THEN [base EXCEPT !.err = UnknownActionError, !.trace = t2]
        ELSE IF ~RequestAccepts(input)
            THEN [base EXCEPT !.err = ValidationError, !.sigData = sd, !.trace = t3]
        ELSE [err |-> NoError, sigData |-> sd,
              hInput |-> IF mig THEN MigrationRequest(input) ELSE ValidatorRequest(input),
              data |-> IF mig THEN MigrationRequestData(input) ELSE "empty",
              trace |-> t4]

\* lines 84-152: from handler resolution to the call of the handler.  The result
\* names the error thrown (NoError when the handler is reached) and the events.
DispatchResult(action, input, sig) ==
    LET exempt == AuthExempt(action)
        t1 == <<"getActionHandler">>
        t2 == IF exempt THEN t1 ELSE Append(t1, "validateSignature")
        mig == UsesMigration(action, "request")
        t3 == Append(t2, IF mig THEN "request:migration" ELSE "request:validator")
        t4 == t3 \o <<"cache.clone", "responder", "handler">>
        sd == IF exempt THEN Null ELSE "trusted"
        base == [err |-> NoError, sigData |-> Null, hInput |-> [via |-> "none", body |-> "none"],
                 data |-> "empty", trace |-> t1]
    IN  IF ~Handled(action) THEN [base EXCEPT !.err = UnknownActionError]
        ELSE IF ~exempt /\ ~SignatureValid(sig)
            THEN [base EXCEPT !.err = AuthenticationError, !.trace = t2]
        ELSE IF ~RequestAccepts(input)
            THEN [base EXCEPT !.err = ValidationError, !.sigData = sd, !.trace = t3]
        ELSE [err |-> NoError, sigData |-> sd,
              hInput |-> IF mig THEN MigrationRequest(input) ELSE ValidatorRequest(input),
              data |-> IF mig THEN MigrationRequestData(input) ELSE "empty",
              trace |-> t4]

\* lines 155-160
NullPromoted(action, out) == action \in {"resolve", "captcha"} /\ out = Null

ResponseTypeNeverTask(out) == "response"

\* lines 192-195
ResponseType(out) ==
    IF out.kind = "val" /\ out.body = "taskRequest" THEN "task" ELSE "response"

\* Responder.send(type, statusCode, output): one terminal send, a second is rejected.
ResponderCanSend(r) == r.st = "open"
ResponderSend(r, type, status, out) ==
    [st |-> "closed", sends |-> Append(r.sends, [type |-> type, statusCode |-> status, output |-> out])]

NoCall == [st |-> "idle", key |-> NoKey, err |-> NoError]
NoResponder == [st |-> "none", sends |-> <<>>]
NoRequest == [action |-> "none", input |-> "none", sig |-> "none"]
NoTask == [cache |-> "none", addon |-> "none", input |-> "none", sendResponse |-> 0]
NoInput == [via |-> "none", body |-> "none"]
\* How the handler's promise settled, and the entry inlineCache held at that moment.
NoSettle == [how |-> "running", value |-> Null, err |-> NoError, held |-> NoKey]

\* Outcomes earlier invocations can have left under a key, and the states of the
\* backend the model starts from: at most one key holds a prior outcome.
PriorOutcomes ==
    {Found(ValidatorResponse("data")), Found(ValidatorResponse(Null)),
     Found(ValidatorResponse("taskRequest")), FoundError("boom")}
InitStores ==
    {s \in [Keys -> PriorOutcomes \cup {Absent}] :
        \A k1, k2 \in Keys : (s[k1] # Absent /\ s[k2] # Absent) => k1 = k2}

InitInvocations ==
    /\ pc = [i \in Invs |-> "idle"]
    /\ req = [i \in Invs |-> NoRequest]
    /\ sigData = [i \in Invs |-> Null]
    /\ hInput = [i \in Invs |-> NoInput]
    /\ ctxData = [i \in Invs |-> "empty"]
    /\ inlineCache = [i \in Invs |-> NoKey]
    /\ calls = [i \in Invs |-> [c \in Slots |-> NoCall]]
    /\ settled = [i \in Invs |-> NoSettle]
    /\ writing = [i \in Invs |-> NoKey]
    /\ caught = [i \in Invs |-> NoError]
    /\ statusCode = [i \in Invs |-> 200]
    /\ output = [i \in Invs |-> Undefined]
    /\ responder = [i \in Invs |-> NoResponder]
    /\ taskCall = [i \in Invs |-> NoTask]
    /\ logged = [i \in Invs |-> FALSE]
    /\ trace = [i \in Invs |-> <<>>]

\* lines 74-80: the reserved action "task" calls handleTask and awaits it.
TaskRedirect(i, action, input, sig) ==
    /\ pc[i] = "idle"
    /\ IsTaskAction(action)
    /\ req' = [req EXCEPT ![i] = [action |-> action, input |-> input, sig |-> sig]]
    /\ taskCall' = [taskCall EXCEPT ![i] =
            [cache |-> "opts.cache", addon |-> addonType, input |-> input, sendResponse |-> i]]
    /\ trace' = [trace EXCEPT ![i] = <<"handleTask">>]
    /\ pc' = [pc EXCEPT ![i] = "task"]
    /\ UNCHANGED <<config, writing, store, sigData, hInput, ctxData, inlineCache, calls, settled,
                   caught, statusCode, output, responder, logged>>

\* lines 75-81: handleTask resolves and handleAction returns.
TaskResolve(i) ==
    /\ pc[i] = "task"
    /\ pc' = [pc EXCEPT ![i] = "done"]
    /\ UNCHANGED <<config, writing, store, req, sigData, hInput, ctxData, inlineCache, calls,
                   settled, caught, statusCode, output, responder, taskCall, logged, trace>>

\* line 75: handleTask rejects and handleAction rejects with its error.
TaskReject(i, e) ==
    /\ pc[i] = "task"
    /\ caught' = [caught EXCEPT ![i] = e]
    /\ pc' = [pc EXCEPT ![i] = "rejected"]
    /\ UNCHANGED <<config, writing, store, req, sigData, hInput, ctxData, inlineCache, calls,
                   settled, statusCode, output, responder, taskCall, logged, trace>>

ThrownUnlessValidation(err) == err \notin {NoError, ValidationError}

\* lines 84-107 are outside the try block: an error thrown there leaves handleAction.
Thrown(err) == err # NoError

\* lines 84-152: resolve the handler, authenticate, migrate the request, clone the
\* cache, create the Responder and call the handler; a failure of one of the first
\* three rejects handleAction.
Dispatch(i, action, input, sig) ==
    /\ pc[i] = "idle"
    /\ ~IsTaskAction(action)
    /\ LET r == DispatchResult(action, input, sig) IN
        /\ req' = [req EXCEPT ![i] = [action |-> action, input |-> input, sig |-> sig]]
        /\ trace' = [trace EXCEPT ![i] = r.trace]
        /\ sigData' = [sigData EXCEPT ![i] = r.sigData]
        /\ hInput' = [hInput EXCEPT ![i] = r.hInput]
        /\ ctxData' = [ctxData EXCEPT ![i] = r.data]
        /\ caught' = [caught EXCEPT ![i] = r.err]
        /\ IF ~Thrown(r.err)
            THEN /\ pc' = [pc EXCEPT ![i] = "handler"]
                 /\ responder' = [responder EXCEPT ![i] = [st |-> "open", sends |-> <<>>]]
            ELSE /\ pc' = [pc EXCEPT ![i] = "rejected"]
                 /\ UNCHANGED responder
    /\ UNCHANGED <<config, writing, store, inlineCache, calls, settled, statusCode, output,
                   taskCall, logged>>

\* ---------------------------------------------------------------- the handler
HandlerRunning(i) == pc[i] = "handler"
\* lines 141-147: the handler was given ctx.requestCache
HandlerInvoked(i) == \E n \in 1..Len(trace[i]) : trace[i][n] = "handler"
FirstIdle(i) == CHOOSE c \in Slots : calls[i][c].st = "idle" /\ \A d \in Slots : d < c => calls[i][d].st # "idle"
HasIdle(i) == \E c \in Slots : calls[i][c].st = "idle"
SomeThrew(i) == \E c \in Slots : calls[i][c].st = "threw"
SomePending(i) == \E c \in Slots : calls[i][c].st = "pending"

\* line 118: the guard of requestCache
AlreadyEngaged(slot) == slot # NoKey

RequestCacheSharedSlot(i, k) ==
    /\ HandlerInvoked(i)
    /\ HasIdle(i)
    /\ LET c == FirstIdle(i) IN
        calls' = [calls EXCEPT ![i][c] =
                    IF \E j \in Invs : AlreadyEngaged(inlineCache[j])
                    THEN [st |-> "threw", key |-> k, err |-> AlreadySetUp]
                    ELSE [st |-> "pending", key |-> k, err |-> NoError]]
    /\ UNCHANGED <<config, writing, store, pc, req, sigData, hInput, ctxData, inlineCache, settled,
                   caught, statusCode, output, responder, taskCall, logged, trace>>

\* lines 117-120, up to the await: requestCache(key) is called, by the handler or
\* by code of the add-on that kept ctx, at any time after the handler was invoked.
\* The call throws when inlineCache is set; otherwise it clones the cache and calls
\* inline.
RequestCache(i, k) ==
    /\ HandlerInvoked(i)
    /\ HasIdle(i)
    /\ LET c == FirstIdle(i) IN
        calls' = [calls EXCEPT ![i][c] =
                    IF AlreadyEngaged(inlineCache[i])
                    THEN [st |-> "threw", key |-> k, err |-> AlreadySetUp]
                    ELSE [st |-> "pending", key |-> k, err |-> NoError]]
    /\ UNCHANGED <<config, writing, store, pc, req, sigData, hInput, ctxData, inlineCache, settled,
                   caught, statusCode, output, responder, taskCall, logged, trace>>

\* line 120, the await: cache.inline(key) answers.  A key another computation holds
\* is waited for; a prior outcome is thrown as CacheFoundError; otherwise the entry
\* is returned and assigned to inlineCache.
InlineResolve(i, c) ==
    /\ calls[i][c].st = "pending"
    /\ LET k == calls[i][c].key IN
        /\ store[k].st # "inflight"
        /\ IF store[k].st = "absent"
            THEN /\ store' = [store EXCEPT ![k] = InFlight]
                 /\ inlineCache' = [inlineCache EXCEPT ![i] = k]
                 /\ calls' = [calls EXCEPT ![i][c].st = "returned"]
            ELSE /\ calls' = [calls EXCEPT ![i][c] = [st |-> "threw", key |-> k, err |-> InlineThrows(store[k])]]
                 /\ UNCHANGED <<store, inlineCache>>
    /\ UNCHANGED <<config, writing, pc, req, sigData, hInput, ctxData, settled, caught, statusCode,
                   output, responder, taskCall, logged, trace>>

\* line 141: the handler returns a value, whatever became of its requestCache calls.
HandlerReturn(i, out) ==
    /\ HandlerRunning(i)
    /\ settled' = [settled EXCEPT ![i] = [how |-> "returned", value |-> out, err |-> NoError,
                                          held |-> inlineCache[i]]]
    /\ pc' = [pc EXCEPT ![i] = "after"]
    /\ UNCHANGED <<config, writing, store, req, sigData, hInput, ctxData, inlineCache, calls, caught,
                   statusCode, output, responder, taskCall, logged, trace>>

\* line 141: the handler rejects with a value of its own.
HandlerThrow(i, e) ==
    /\ HandlerRunning(i)
    /\ settled' = [settled EXCEPT ![i] = [how |-> "threw", value |-> Null, err |-> e,
                                          held |-> inlineCache[i]]]
    /\ caught' = [caught EXCEPT ![i] = e]
    /\ pc' = [pc EXCEPT ![i] = "catch"]
    /\ UNCHANGED <<config, writing, store, req, sigData, hInput, ctxData, inlineCache, calls,
                   statusCode, output, responder, taskCall, logged, trace>>

\* line 141: the handler rejects with the error of one of its requestCache calls
\* (other calls it made at the same time may still be pending).
HandlerPropagate(i, c) ==
    /\ HandlerRunning(i)
    /\ calls[i][c].st = "threw"
    /\ settled' = [settled EXCEPT ![i] = [how |-> "threw", value |-> Null, err |-> calls[i][c].err,
                                          held |-> inlineCache[i]]]
    /\ caught' = [caught EXCEPT ![i] = calls[i][c].err]
    /\ pc' = [pc EXCEPT ![i] = "catch"]
    /\ UNCHANGED <<config, writing, store, req, sigData, hInput, ctxData, inlineCache, calls,
                   statusCode, output, responder, taskCall, logged, trace>>

\* ---------------------------------------------------------------- after the handler
\* lines 162-167: the response transform of the action
ResponseTransform(action, data, input, out) ==
    IF UsesMigration(action, "response") THEN MigrationResponse(data, input, out)
    ELSE ValidatorResponse(out)
ResponseEvent(action) ==
    IF UsesMigration(action, "response") THEN "response:migration" ELSE "response:validator"

\* lines 154-170: null-result promotion, response transform, and the call of
\* inlineCache.set when an entry is held.
AfterHandler(i) ==
    /\ pc[i] = "after"
    /\ LET a == req[i].action
           out == settled[i].value
       IN IF NullPromoted(a, out)
          THEN /\ caught' = [caught EXCEPT ![i] = NothingFound]
               /\ trace' = [trace EXCEPT ![i] = Append(@, "nullCheck")]
               /\ pc' = [pc EXCEPT ![i] = "catch"]
               /\ UNCHANGED output
          ELSE IF ~ResponseAccepts(out)
          THEN /\ caught' = [caught EXCEPT ![i] = ValidationError]
               /\ trace' = [trace EXCEPT ![i] = @ \o <<"nullCheck", ResponseEvent(a)>>]
               /\ pc' = [pc EXCEPT ![i] = "catch"]
               /\ UNCHANGED output
          ELSE /\ output' = [output EXCEPT ![i] = ResponseTransform(a, ctxData[i], hInput[i], out)]
               /\ trace' = [trace EXCEPT ![i] =
                    @ \o <<"nullCheck", ResponseEvent(a)>> \o
                    (IF AlreadyEngaged(inlineCache[i]) THEN <<"set">> ELSE <<>>)]
               /\ pc' = [pc EXCEPT ![i] = IF AlreadyEngaged(inlineCache[i]) THEN "set" ELSE "send"]
               /\ UNCHANGED caught
    /\ writing' = [writing EXCEPT ![i] = IF pc'[i] = "set" THEN inlineCache[i] ELSE NoKey]
    /\ UNCHANGED <<config, store, req, sigData, hInput, ctxData, inlineCache, calls, settled,
                   statusCode, responder, taskCall, logged>>

SetOkBeforeTransform(i) ==
    /\ pc[i] = "set"
    /\ store' = EntrySet(store, writing[i], ValidatorResponse(settled[i].value))
    /\ writing' = [writing EXCEPT ![i] = NoKey]
    /\ pc' = [pc EXCEPT ![i] = "send"]
    /\ UNCHANGED <<config, req, sigData, hInput, ctxData, inlineCache, calls, settled, caught,
                   statusCode, output, responder, taskCall, logged, trace>>

\* line 170, the await: inlineCache.set(output) completes.
SetOk(i) ==
    /\ pc[i] = "set"
    /\ store' = EntrySet(store, writing[i], output[i])
    /\ writing' = [writing EXCEPT ![i] = NoKey]
    /\ pc' = [pc EXCEPT ![i] = "send"]
    /\ UNCHANGED <<config, req, sigData, hInput, ctxData, inlineCache, calls, settled, caught,
                   statusCode, output, responder, taskCall, logged, trace>>

\* line 170, the await: inlineCache.set(output) fails in the backend; the error is
\* caught at line 171.
SetFail(i) ==
    /\ pc[i] = "set"
    /\ caught' = [caught EXCEPT ![i] = BackendError]
    /\ writing' = [writing EXCEPT ![i] = NoKey]
    /\ pc' = [pc EXCEPT ![i] = "catch"]
    /\ UNCHANGED <<config, store, req, sigData, hInput, ctxData, inlineCache, calls, settled,
                   statusCode, output, responder, taskCall, logged, trace>>

\* lines 173-179: the output of a cache hit
IsCacheFound(e) == e.name = "CacheFoundError"
HitStatusAlways500(e) == 500
HitStatus(e) == IF e.result # Undefined THEN 200 ELSE 500
HitOutputTruthy(e) ==
    IF e.result # Undefined /\ e.result.body # Null THEN e.result ELSE ErrorPayload(e.error)
HitOutput(e) == IF e.result # Undefined THEN e.result ELSE ErrorPayload(e.error)

\* lines 184-187: the output of any other error
ErrorStatus == 500
ErrorOutput(e) == ErrorPayload(ErrorText(e))
Warns(e) == ~e.silent

\* lines 171-189, up to the await of setError: a cache hit becomes the response;
\* any other error is recorded in the held entry, if any, and becomes a 500.  For a
\* rejection with undefined, line 186 throws inside the catch block and
\* handleAction rejects.
Catch(i) ==
    /\ pc[i] = "catch"
    /\ LET e == caught[i] IN
        IF IsCacheFound(e)
        THEN /\ statusCode' = [statusCode EXCEPT ![i] = HitStatus(e)]
             /\ output' = [output EXCEPT ![i] = HitOutput(e)]
             /\ pc' = [pc EXCEPT ![i] = "send"]
             /\ UNCHANGED <<writing, logged, trace, caught>>
        ELSE IF AlreadyEngaged(inlineCache[i])
        THEN /\ writing' = [writing EXCEPT ![i] = inlineCache[i]]
             /\ trace' = [trace EXCEPT ![i] = Append(@, "setError")]
             /\ pc' = [pc EXCEPT ![i] = "setError"]
             /\ UNCHANGED <<statusCode, output, logged, caught>>
        ELSE IF ReadThrows(e)
        THEN /\ statusCode' = [statusCode EXCEPT ![i] = ErrorStatus]
             /\ caught' = [caught EXCEPT ![i] = PropertyReadError]
             /\ pc' = [pc EXCEPT ![i] = "rejected"]
             /\ UNCHANGED <<output, writing, logged, trace>>
        ELSE /\ statusCode' = [statusCode EXCEPT ![i] = ErrorStatus]
             /\ output' = [output EXCEPT ![i] = ErrorOutput(e)]
             /\ logged' = [logged EXCEPT ![i] = Warns(e)]
             /\ pc' = [pc EXCEPT ![i] = "send"]
             /\ UNCHANGED <<writing, trace, caught>>
    /\ UNCHANGED <<config, store, req, sigData, hInput, ctxData, inlineCache, calls, settled,
                   responder, taskCall>>

\* lines 182-187: inlineCache.setError(error) completes, then the error response is
\* set; for a rejection with undefined, line 186 throws and handleAction rejects.
SetErrorOk(i) ==
    /\ pc[i] = "setError"
    /\ store' = EntrySetError(store, writing[i], caught[i])
    /\ writing' = [writing EXCEPT ![i] = NoKey]
    /\ statusCode' = [statusCode EXCEPT ![i] = ErrorStatus]
    /\ IF ReadThrows(caught[i])
        THEN /\ caught' = [caught EXCEPT ![i] = PropertyReadError]
             /\ pc' = [pc EXCEPT ![i] = "rejected"]
             /\ UNCHANGED <<output, logged>>
        ELSE /\ output' = [output EXCEPT ![i] = ErrorOutput(caught[i])]
             /\ logged' = [logged EXCEPT ![i] = Warns(caught[i])]
             /\ pc' = [pc EXCEPT ![i] = "send"]
             /\ UNCHANGED caught
    /\ UNCHANGED <<config, req, sigData, hInput, ctxData, inlineCache, calls, settled,
                   responder, taskCall, trace>>

\* line 182: inlineCache.setError(error) fails in the backend; nothing catches it
\* and handleAction rejects.
SetErrorFail(i) ==
    /\ pc[i] = "setError"
    /\ caught' = [caught EXCEPT ![i] = BackendError]
    /\ writing' = [writing EXCEPT ![i] = NoKey]
    /\ pc' = [pc EXCEPT ![i] = "rejected"]
    /\ UNCHANGED <<config, store, req, sigData, hInput, ctxData, inlineCache, calls, settled,
                   statusCode, output, responder, taskCall, logged, trace>>

\* lines 191-196: classify the output and send it through the Responder.
Send(i) ==
    /\ pc[i] = "send"
    /\ IF ResponderCanSend(responder[i])
        THEN /\ responder' = [responder EXCEPT ![i] =
                    ResponderSend(@, ResponseType(output[i]), statusCode[i], output[i])]
             /\ pc' = [pc EXCEPT ![i] = "detach"]
             /\ UNCHANGED caught
        ELSE /\ caught' = [caught EXCEPT ![i] = Err("Error", "Response already sent", FALSE)]
             /\ pc' = [pc EXCEPT ![i] = "rejected"]
             /\ UNCHANGED responder
    /\ trace' = [trace EXCEPT ![i] = Append(@, "send")]
    /\ UNCHANGED <<config, writing, store, req, sigData, hInput, ctxData, inlineCache, calls,
                   settled, statusCode, output, taskCall, logged>>

\* line 197: responder.setSendResponse(id, null)
Detach(i) ==
    /\ pc[i] = "detach"
    /\ responder' = [responder EXCEPT ![i].st = "detached"]
    /\ trace' = [trace EXCEPT ![i] = Append(@, "detach")]
    /\ pc' = [pc EXCEPT ![i] = "done"]
    /\ UNCHANGED <<config, writing, store, req, sigData, hInput, ctxData, inlineCache, calls,
                   settled, caught, statusCode, output, taskCall, logged>>

Step(i) ==
    \/ \E k \in Keys : RequestCache(i, k)
    \/ \E c \in Slots : InlineResolve(i, c)
    \/ \E o \in HandlerOutputs : HandlerReturn(i, o)
    \/ \E e \in HandlerErrors : HandlerThrow(i, e)
    \/ \E c \in Slots : HandlerPropagate(i, c)
    \/ AfterHandler(i)
    \/ SetOk(i)
    \/ Catch(i)
    \/ SetErrorOk(i)
    \/ Send(i)
    \/ Detach(i)

\* ---------------------------------------------------------------- specifications
\* Spec: one invocation, with any action, input, signature, add-on type, bypass
\* flag and registry, against a backend in any of the states InitStores.  The
\* backend completes every set and setError.
Init ==
    /\ addonType \in AddonTypes
    /\ skipAuth \in BOOLEAN
    /\ migrations \in Registries
    /\ store \in InitStores
    /\ InitInvocations

Next ==
    \/ \E a \in Actions, x \in Inputs, s \in Sigs : TaskRedirect(1, a, x, s)
    \/ TaskResolve(1)
    \/ TaskReject(1, TaskFailed)
    \/ \E a \in Actions, x \in Inputs, s \in Sigs : Dispatch(1, a, x, s)
    \/ Step(1)

Spec == Init /\ [][Next]_vars

\* SpecFaults: as Spec, with a backend whose set and setError may fail.
NextFaults ==
    \/ Next
    \/ SetFail(1)
    \/ SetErrorFail(1)

SpecFaults == Init /\ [][NextFaults]_vars

\* SpecSeq: NumInv invocations served one after the other against a backend that
\* starts empty; each is a signed, well-formed request of a worker add-on.
SeqActions == {"item", "resolve"}
Finished(i) == pc[i] \in {"done", "rejected"}
MayStart(i) == \A j \in Invs : j < i => Finished(j)

InitSeq ==
    /\ addonType = "worker"
    /\ skipAuth = FALSE
    /\ migrations = [a \in Actions |-> {}]
    /\ store = [k \in Keys |-> Absent]
    /\ InitInvocations

NextSeq ==
    \/ \E i \in Invs, a \in SeqActions : MayStart(i) /\ Dispatch(i, a, "v1", "good")
    \/ \E i \in Invs : Step(i)

SpecSeq == InitSeq /\ [][NextSeq]_vars

\* SpecConc: NumInv invocations of "item" served at the same time against a backend
\* that starts empty; each is a signed, well-formed request of a worker add-on whose
\* registry adapts both directions of "item", so that migrationCtx.data carries the
\* invocation's own input from the request migration to the response migration.
\* The first invocation is called with one input, the others with another.
ConcInput(i) == IF i = 1 THEN "v1" ELSE "v2"

InitConc ==
    /\ addonType = "worker"
    /\ skipAuth = FALSE
    /\ migrations = [a \in Actions |-> IF a = "item" THEN Directions ELSE {}]
    /\ store = [k \in Keys |-> Absent]
    /\ InitInvocations

NextConc ==
    \/ \E i \in Invs : Dispatch(i, "item", ConcInput(i), "good")
    \/ \E i \in Invs : Step(i)

SpecConc == InitConc /\ [][NextConc]_vars

\* ---------------------------------------------------------------- properties
Happened(i, ev) == \E n \in 1..Len(trace[i]) : trace[i][n] = ev
Started(i) == pc[i] # "idle"
Sends(i) == responder[i].sends
NoCalls(i) == \A c \in Slots : calls[i][c] = NoCall

\* The actions the spec lists as exempt from authentication (section 4.1, 8).
ListedExempt(a) == a \in {"selftest", "addon"} \/ (a = "repository" /\ addonType = "repository")

\* C1 (as claimed): when handleAction has finished for an action other than "task",
\* the Responder's send has been called exactly once, whatever stage failed.
ExactlyOneResponse ==
    \A i \in Invs :
        /\ Len(Sends(i)) <= 1
        /\ (Finished(i) /\ req[i].action # "task") => Len(Sends(i)) = 1

\* A failure of steps 2-6 of the dispatcher that is not a cache hit.
StageFailure(e) ==
    e.name \in {"UnknownActionError", "AuthenticationError", "ValidationError", "Error", "SilentError"}

\* C2 (as claimed): a failure of steps 2-6 that is not a cache short-circuit is
\* answered through the Responder with status 500 and { error: <message> }.
ErrorRespond ==
    \A i \in Invs :
        (Finished(i) /\ StageFailure(caught[i])) =>
            Sends(i) = <<[type |-> "response", statusCode |-> 500,
                          output |-> ErrorPayload(caught[i].message)]>>

\* C3 (as claimed): every non-"task" action outside the exempt set has
\* validateSignature called on it unless the bypass flag is set.
AuthExemptionAsClaimed ==
    \A i \in Invs :
        (Started(i) /\ req[i].action # "task" /\ ~ListedExempt(req[i].action) /\ ~skipAuth)
            => Happened(i, "validateSignature")

\* C3 (amended): validateSignature is never called for "selftest", "addon", and
\* "repository" on a repository add-on, nor under the bypass flag, and the handler
\* then gets sig = null; for every other non-"task" action that the add-on has a
\* handler for it is called and the handler runs only with the trusted data; for an
\* action without a handler, getActionHandler throws first and it is not called.
AuthExemptionSet ==
    \A i \in Invs :
        (Started(i) /\ req[i].action # "task") =>
            LET a == req[i].action IN
            /\ (ListedExempt(a) \/ skipAuth) =>
                    ~Happened(i, "validateSignature") /\ sigData[i] = Null
            /\ (~ListedExempt(a) /\ ~skipAuth /\ Handled(a)) => Happened(i, "validateSignature")
            /\ (~ListedExempt(a) /\ ~skipAuth /\ Happened(i, "handler")) =>
                    sigData[i] = "trusted" /\ req[i].sig = "good"
            /\ ~Handled(a) => ~Happened(i, "validateSignature")

\* C3 witness: an unsigned "selftest" reached the handler with sig = null.
SelftestUnsigned ==
    \E i \in Invs :
        /\ req[i].action = "selftest" /\ req[i].sig = "none" /\ ~skipAuth
        /\ Happened(i, "handler") /\ sigData[i] = Null

\* The invocations the claim C4 speaks of: handler resolution, signature
\* validation or validation of the wire input fails.
FailsBeforeHandler(i) ==
    LET a == req[i].action IN
    \/ ~Handled(a)
    \/ (~ListedExempt(a) /\ ~skipAuth /\ req[i].sig # "good")
    \/ req[i].input = "bad"

\* C4: in an invocation whose handler resolution, signature validation or request
\* validation fails, the handler is never invoked and no inline cache entry is
\* created or written.
AbortBeforeHandler ==
    \A i \in Invs :
        (Started(i) /\ req[i].action # "task" /\ FailsBeforeHandler(i)) =>
            /\ pc[i] = "rejected"
            /\ ~Happened(i, "handler")
            /\ NoCalls(i) /\ inlineCache[i] = NoKey /\ writing[i] = NoKey
            /\ ~Happened(i, "set") /\ ~Happened(i, "setError")

\* C4 witness: a signed request with a malformed input was rejected by the request
\* transform.
MalformedInputRejected ==
    \E i \in Invs :
        /\ req[i].input = "bad" /\ req[i].sig = "good" /\ Handled(req[i].action)
        /\ caught[i] = ValidationError /\ pc[i] = "rejected"

\* C5: an invocation with action "task" is routed to handleTask with the root
\* cache, the add-on, the input and sendResponse, and reaches nothing of the normal
\* pipeline, whatever the signature and the add-on type and whether handleTask
\* resolves or rejects; no other action is routed there.
TaskRedirection ==
    \A i \in Invs :
        Started(i) =>
            /\ (req[i].action = "task") <=> (taskCall[i] # NoTask)
            /\ (req[i].action = "task") =>
                /\ taskCall[i] = [cache |-> "opts.cache", addon |-> addonType,
                                  input |-> req[i].input, sendResponse |-> i]
                /\ trace[i] = <<"handleTask">>
                /\ pc[i] \in {"task", "done", "rejected"}
                /\ responder[i] = NoResponder /\ sigData[i] = Null /\ hInput[i] = NoInput
                /\ NoCalls(i) /\ inlineCache[i] = NoKey /\ output[i] = Undefined
                /\ caught[i] = (IF pc[i] = "rejected" THEN TaskFailed ELSE NoError)

\* C5 witness: an unsigned "task" invocation on a repository add-on was handed to
\* handleTask.
UnsignedTaskRouted ==
    \E i \in Invs :
        /\ req[i].action = "task" /\ req[i].sig = "none" /\ addonType = "repository"
        /\ taskCall[i].sendResponse = i /\ pc[i] = "done"

\* A requestCache call whose inline lookup found a recorded value / a recorded failure.
ValueHit(i, c) ==
    calls[i][c].st = "threw" /\ IsCacheFound(calls[i][c].err) /\ calls[i][c].err.result # Undefined
FailureHit(i, c) ==
    calls[i][c].st = "threw" /\ IsCacheFound(calls[i][c].err) /\ calls[i][c].err.result = Undefined
ShortCircuited(i, c) == settled[i].how = "threw" /\ settled[i].err = calls[i][c].err
\* inline(k) returned the entry of k to the invocation.
EngagedKey(i, k) == \E c \in Slots : calls[i][c].st = "returned" /\ calls[i][c].key = k
TypeOf(v) == IF v.body = "taskRequest" /\ v.kind = "val" THEN "task" ELSE "response"

\* C6 (as claimed): an invocation whose inline(k) finds the value v another
\* invocation set never invokes its handler, and answers 200 with v.
DedupIdempotenceAsClaimed ==
    \A j \in Invs, c \in Slots :
        ValueHit(j, c) =>
            /\ ~Happened(j, "handler")
            /\ Finished(j) =>
                Sends(j) = <<[type |-> TypeOf(calls[j][c].err.result), statusCode |-> 200,
                              output |-> calls[j][c].err.result]>>

\* C6 (amended): if an invocation has set v under k before another invocation's
\* inline(k) is answered, that requestCache call throws CacheFoundError(v) inside
\* the second invocation's handler (which has been invoked); when the handler
\* rejects with it, nothing of the handler's result is processed (no null check, no
\* response transform, no set or setError) and the response is 200 with output v.
DedupIdempotence ==
    \A j \in Invs, c \in Slots :
        (ValueHit(j, c) /\ ~EngagedKey(j, calls[j][c].key)) =>
            LET k == calls[j][c].key
                v == calls[j][c].err.result
            IN  /\ store[k] = Found(v)
                /\ \E i \in Invs \ {j} :
                        Happened(i, "set") /\ EngagedKey(i, k) /\ output[i] = v
                /\ Happened(j, "handler")
                /\ ShortCircuited(j, c) =>
                    /\ ~Happened(j, "nullCheck") /\ ~Happened(j, "set") /\ ~Happened(j, "setError")
                    /\ ~Happened(j, "response:validator") /\ ~Happened(j, "response:migration")
                    /\ pc[j] \in {"send", "detach", "done"} => statusCode[j] = 200 /\ output[j] = v
                    /\ pc[j] \in {"detach", "done"} =>
                        Sends(j) = <<[type |-> TypeOf(v), statusCode |-> 200, output |-> v]>>

\* C6 witness: a second invocation answered 200 from the value the first one set.
SecondShortCircuits ==
    \E i, j \in Invs, c \in Slots :
        /\ i # j /\ Happened(i, "set") /\ pc[i] = "done"
        /\ ValueHit(j, c) /\ ShortCircuited(j, c) /\ pc[j] = "done"
        /\ Sends(j)[1].statusCode = 200 /\ Sends(j)[1].output = output[i]

FailedAfterInvoke(i) ==
    Happened(i, "handler") /\ caught[i] # NoError /\ ~IsCacheFound(caught[i])

\* C7 (as claimed): an invocation that engaged the dedup helper for key k and failed
\* after Invoke has recorded the failure under k and answered 500 with its payload,
\* and an invocation that short-circuits on a recorded failure answers 500 with the
\* recorded payload.
FailureReplay ==
    /\ \A i \in Invs, k \in Keys :
        (Finished(i) /\ EngagedKey(i, k) /\ FailedAfterInvoke(i)) =>
            /\ store[k] = FoundError(caught[i].message)
            /\ Sends(i) = <<[type |-> "response", statusCode |-> 500,
                             output |-> ErrorPayload(caught[i].message)]>>
    /\ \A j \in Invs, c \in Slots :
        (FailureHit(j, c) /\ ShortCircuited(j, c) /\ Finished(j)) =>
            Sends(j) = <<[type |-> "response", statusCode |-> 500,
                          output |-> ErrorPayload(store[calls[j][c].key].error)]>>

\* A requestCache call that reached cache.inline.
ReachedInline(call) ==
    call.st \in {"pending", "returned"} \/ (call.st = "threw" /\ IsCacheFound(call.err))

\* C8 (as claimed): within one invocation cache.inline is called at most once, and
\* every further requestCache call fails with the programmer error.
AtMostOneInline ==
    \A i \in Invs :
        /\ Cardinality({c \in Slots : ReachedInline(calls[i][c])}) <= 1
        /\ \A c \in Slots : (c > 1 /\ calls[i][c].st # "idle") =>
                calls[i][c].st = "threw" /\ calls[i][c].err = AlreadySetUp

ResponseApplied(i) == Happened(i, "response:validator") \/ Happened(i, "response:migration")
ExpectedWire(i, out) ==
    IF "response" \in migrations[req[i].action]
    THEN [kind |-> "val", via |-> "migration", body |-> out, ctx |-> ctxData[i]]
    ELSE [kind |-> "val", via |-> "validator", body |-> out, ctx |-> "none"]

\* C9 (as claimed): for "resolve" and "captcha" a handler that returns null is
\* answered 500 with { error: "Nothing found" } and the response transform is not
\* applied; for every other action the null is handed to the response transform
\* and, accepted, is answered 200.
NullResultPromotion ==
    \A i \in Invs :
        (settled[i].how = "returned" /\ settled[i].value = Null /\ pc[i] # "after") =>
            IF req[i].action \in {"resolve", "captcha"}
            THEN /\ caught[i] = NothingFound
                 /\ ~ResponseApplied(i)
                 /\ Finished(i) =>
                        Sends(i) = <<[type |-> "response", statusCode |-> 500,
                                      output |-> ErrorPayload("Nothing found")]>>
            ELSE /\ caught[i] = NoError
                 /\ ResponseApplied(i)
                 /\ Finished(i) =>
                        Sends(i) = <<[type |-> "response", statusCode |-> 200,
                                      output |-> ExpectedWire(i, Null)]>>

BothApplied(i) == Happened(i, "handler") /\ ResponseApplied(i) /\ caught[i] = NoError /\ pc[i] # "after"

Presented(i, k) == \E c \in Slots : calls[i][c].key = k /\ ReachedInline(calls[i][c])

\* C11 (as claimed): of two invocations in flight at the same time whose
\* requestCache calls present the same key k, at most one has inline(k) return the
\* entry of k and holds, sets or setErrors it, the other's call waiting meanwhile;
\* and when one of them has gone past inline(k) as the computation of k, the two
\* handlers never both run to completion.
DedupUnderConcurrency ==
    \A i, j \in Invs, k \in Keys :
        i # j =>
            /\ ~(EngagedKey(i, k) /\ EngagedKey(j, k))
            /\ ~(inlineCache[i] = k /\ inlineCache[j] = k)
            /\ ~(writing[i] = k /\ writing[j] = k)
            /\ (EngagedKey(i, k) /\ store[k].st = "inflight") =>
                    \A c \in Slots :
                        (calls[j][c].key = k /\ ReachedInline(calls[j][c])) => calls[j][c].st = "pending"
            /\ (EngagedKey(i, k) /\ Presented(j, k) /\ ~Finished(i) /\ ~Finished(j)) =>
                    ~(settled[i].how = "returned" /\ settled[j].how = "returned")

Count(i, ev) == Cardinality({n \in 1..Len(trace[i]) : trace[i][n] = ev})
Before(i, ev1, ev2) ==
    \A n, m \in 1..Len(trace[i]) : (trace[i][n] = ev1 /\ trace[i][m] = ev2) => n < m

\* C12 (as claimed): an invocation that has finished and to which inline(k) returned
\* the entry of k has called exactly one of set and setError on that entry: set,
\* with the final output, when the handler call and the response transform
\* succeeded, setError when one of them failed, and the call came before
\* responder.send.
DedupCompletion ==
    \A i \in Invs, k \in Keys :
        (Finished(i) /\ EngagedKey(i, k)) =>
            /\ inlineCache[i] = k
            /\ Count(i, "set") + Count(i, "setError") = 1
            /\ Happened(i, "set") <=> caught[i] = NoError
            /\ Happened(i, "set") => store[k] = Found(output[i])
            /\ Happened(i, "setError") => store[k] = FoundError(ErrorText(caught[i]))
            /\ Before(i, "set", "send") /\ Before(i, "setError", "send")

\* C13 (as claimed): an invocation one of whose dedup lookups found a prior outcome
\* makes no null check, no response transform and no set or setError, and answers
\* 200 with the recorded value when one is recorded, and otherwise 500 with
\* { error: <the recorded error> }.
ShortCircuitFrameAsClaimed ==
    \A i \in Invs, c \in Slots :
        (ValueHit(i, c) \/ FailureHit(i, c)) =>
            LET e == calls[i][c].err
                status == IF e.result # Undefined THEN 200 ELSE 500
                out == IF e.result # Undefined THEN e.result ELSE ErrorPayload(e.error)
            IN  /\ ~Happened(i, "nullCheck") /\ ~ResponseApplied(i)
                /\ ~Happened(i, "set") /\ ~Happened(i, "setError")
                /\ Finished(i) =>
                        Len(Sends(i)) = 1 /\ Sends(i)[1].statusCode = status /\ Sends(i)[1].output = out

\* C13 (amended): an invocation whose handler rejects with the CacheFoundError of
\* its dedup lookup, so that the catch block receives it, has made no null check, no response transform and no set or setError,
\* and answers 200 with the recorded value when one is recorded (a recorded null
\* included), and otherwise 500 with { error: <the recorded error> }.
ShortCircuitFrame ==
    \A i \in Invs :
        IsCacheFound(caught[i]) =>
            LET e == caught[i]
                status == IF e.result # Undefined THEN 200 ELSE 500
                out == IF e.result # Undefined THEN e.result ELSE ErrorPayload(e.error)
            IN  /\ \E c \in Slots :
                        /\ calls[i][c].st = "threw" /\ calls[i][c].err = e
                        /\ store[calls[i][c].key].st \in {"found", "foundError"}
                        /\ e.result = store[calls[i][c].key].result
                        /\ e.error = store[calls[i][c].key].error
                /\ ~Happened(i, "nullCheck") /\ ~ResponseApplied(i)
                /\ ~Happened(i, "set") /\ ~Happened(i, "setError")
                /\ writing[i] = NoKey /\ pc[i] \in {"catch", "send", "detach", "done"}
                /\ pc[i] \in {"send", "detach", "done"} => statusCode[i] = status /\ output[i] = out
                /\ pc[i] \in {"detach", "done"} =>
                        Len(Sends(i)) = 1 /\ Sends(i)[1].statusCode = status /\ Sends(i)[1].output = out

\* C13 witness: a recorded null was replayed with status 200.
CachedNullReplayed ==
    \E i \in Invs :
        /\ IsCacheFound(caught[i]) /\ caught[i].result = ValidatorResponse(Null)
        /\ pc[i] = "done" /\ Sends(i)[1].statusCode = 200
        /\ Sends(i)[1].output = ValidatorResponse(Null)

\* The final output is a task request: the handler returned one and it passed the
\* response transform, or the dedup lookup found one recorded.
FinalIsTaskRequest(i) ==
    \/ caught[i] = NoError /\ settled[i].how = "returned" /\ settled[i].value = "taskRequest"
    \/ IsCacheFound(caught[i]) /\ caught[i].result.kind = "val" /\ caught[i].result.body = "taskRequest"
ReplayedFailure(i) == IsCacheFound(caught[i]) /\ caught[i].result = Undefined
CaughtError(i) == caught[i] # NoError /\ ~IsCacheFound(caught[i])

\* C14: the type given to responder.send is "task" exactly when the final output is
\* a task request, from the handler or from the cache, and "response" otherwise
\* (null, other values and error payloads included); the status is 500 when an
\* error was caught or a recorded failure is replayed, and 200 otherwise.
ResponseClassification ==
    \A i \in Invs :
        (pc[i] \in {"detach", "done"} /\ req[i].action # "task") =>
            /\ Len(Sends(i)) = 1
            /\ Sends(i)[1].type = (IF FinalIsTaskRequest(i) THEN "task" ELSE "response")
            /\ Sends(i)[1].type \in {"task", "response"}
            /\ (Sends(i)[1].output.kind = "err" \/ Sends(i)[1].output.body = Null)
                    => Sends(i)[1].type = "response"
            /\ Sends(i)[1].statusCode =
                    (IF CaughtError(i) \/ ReplayedFailure(i) THEN 500 ELSE 200)

\* C14 witness: a recorded task request was replayed as type "task" with status 200.
CachedTaskRequestSent ==
    \E i \in Invs :
        /\ pc[i] = "done" /\ IsCacheFound(caught[i])
        /\ caught[i].result = ValidatorResponse("taskRequest")
        /\ Sends(i)[1].type = "task" /\ Sends(i)[1].statusCode = 200

\* The place of each event in the order of handleAction.
Rank(ev) ==
    CASE ev = "getActionHandler" -> 1
      [] ev = "validateSignature" -> 2
      [] ev \in {"request:migration", "request:validator"} -> 3
      [] ev = "cache.clone" -> 4
      [] ev = "responder" -> 5
      [] ev = "handler" -> 6
      [] ev = "nullCheck" -> 7
      [] ev \in {"response:migration", "response:validator"} -> 8
      [] ev = "set" -> 9
      [] ev = "setError" -> 10
      [] ev = "send" -> 11
      [] ev = "detach" -> 12
      [] OTHER -> 0
InOrder(t) == \A n, m \in 1..Len(t) : n < m => Rank(t[n]) < Rank(t[m])

\* C15: the events of an invocation other than "task" occur once each and in the
\* order: handler resolution, signature validation (unless exempt), request
\* transform, cache clone, handler call, null check, response transform, set or
\* setError, send, detach.  No step is reached without the ones before it; an
\* unknown action fails at handler resolution, before any signature validation;
\* nothing is sent after the detach.
StrictStepOrder ==
    \A i \in Invs :
        (Started(i) /\ req[i].action # "task") =>
            LET t == trace[i] IN
            /\ InOrder(t) /\ Len(t) >= 1 /\ t[1] = "getActionHandler"
            /\ ~Handled(req[i].action) => t = <<"getActionHandler">> /\ pc[i] = "rejected"
            /\ Happened(i, "validateSignature") <=>
                    (Handled(req[i].action) /\ ~ListedExempt(req[i].action) /\ ~skipAuth)
            /\ Happened(i, "handler") =>
                    /\ Happened(i, "request:migration") \/ Happened(i, "request:validator")
                    /\ Happened(i, "cache.clone")
            /\ (Happened(i, "nullCheck") \/ Happened(i, "setError") \/ Happened(i, "send"))
                    => Happened(i, "handler")
            /\ (ResponseApplied(i) \/ Happened(i, "set")) => Happened(i, "nullCheck")
            /\ Happened(i, "set") => ResponseApplied(i)
            /\ Happened(i, "detach") => Happened(i, "send") /\ t[Len(t)] = "detach"
            /\ Len(Sends(i)) = Count(i, "send")
            /\ pc[i] = "done" => Happened(i, "detach") /\ responder[i].st = "detached"

\* C15 witness: an invocation that went through every step, in order.
EveryStepTaken ==
    \E i \in Invs :
        trace[i] = <<"getActionHandler", "validateSignature", "request:migration", "cache.clone",
                     "responder", "handler", "nullCheck", "response:migration", "set", "send",
                     "detach">>

\* C16: invocations running at the same time do not see each other's state: the
\* first requestCache call of an invocation never fails with "already set up",
\* whatever the other has engaged (the error needs an entry the invocation itself
\* holds); the data its request migration noted is the data its own response
\* migration reads; and the response sent through its Responder is its own status
\* and output.
InvocationIsolation ==
    \A i \in Invs :
        /\ calls[i][1].err # AlreadySetUp
        /\ \A c \in Slots : calls[i][c].err = AlreadySetUp =>
                \E d \in Slots : d < c /\ calls[i][d].st = "returned"
        /\ Started(i) => ctxData[i] = MigrationRequestData(req[i].input)
        /\ (Happened(i, "response:migration") /\ caught[i] = NoError) =>
                output[i].via = "migration" /\ output[i].ctx = req[i].input
        /\ pc[i] \in {"detach", "done"} =>
                Sends(i) = <<[type |-> ResponseType(output[i]), statusCode |-> statusCode[i],
                              output |-> output[i]]>>
        /\ pc[i] \notin {"detach", "done"} => Sends(i) = <<>>

\* C16 witness: while one invocation, holding an entry, awaits its set, the other,
\* called with a different input, has had its first requestCache call return.
BothEngagedAtOnce ==
    \E i, j \in Invs :
        /\ i # j /\ pc[i] = "set" /\ inlineCache[i] # NoKey /\ output[i].ctx = "v1"
        /\ pc[j] = "handler" /\ ctxData[j] = "v2" /\ calls[j][1].st = "returned"

\* The error the catch block received (the rejection of line 186 replaces it).
ReceivedError(i) == IF caught[i] = PropertyReadError THEN ThrownUndefined ELSE caught[i]

\* C17 (as claimed): when an invocation whose handler was invoked has finished,
\* console.warn has been called exactly when the catch block received an error that
\* is not a CacheFoundError and is not marked noBacktraceLog.
ErrorLogging ==
    \A i \in Invs :
        (HandlerInvoked(i) /\ Finished(i)) =>
            (logged[i] <=>
                /\ ReceivedError(i) # NoError
                /\ ~IsCacheFound(ReceivedError(i))
                /\ ~ReceivedError(i).silent)

SetCompleted(i) == Happened(i, "set") /\ pc[i] \in {"send", "detach", "done"}
Triple(type, status, out) == [type |-> type, statusCode |-> status, output |-> out]

\* C18: the value an invocation records with set is its output after the response
\* transform, and is the payload it then sends with status 200; an invocation that
\* short-circuits on that key sends the same status, type and payload as the
\* invocation that recorded it, and applies no response transform of its own.
ReplayEqualsOriginal ==
    /\ \A i \in Invs :
        SetCompleted(i) =>
            /\ output[i] = ResponseTransform(req[i].action, ctxData[i], hInput[i], settled[i].value)
            /\ \E k \in Keys : EngagedKey(i, k) /\ store[k] = Found(output[i])
            /\ statusCode[i] = 200
            /\ pc[i] \in {"detach", "done"} =>
                    Sends(i) = <<Triple(ResponseType(output[i]), 200, output[i])>>
    /\ \A j \in Invs, c \in Slots :
        (ValueHit(j, c) /\ ShortCircuited(j, c) /\ pc[j] \in {"detach", "done"}) =>
            /\ ~ResponseApplied(j)
            /\ \E i \in Invs \ {j} :
                    /\ SetCompleted(i) /\ EngagedKey(i, calls[j][c].key)
                    /\ store[calls[j][c].key] = Found(output[i])
                    /\ Sends(j) = <<Triple(ResponseType(output[i]), 200, output[i])>>
                    /\ pc[i] \in {"detach", "done"} => Sends(j) = Sends(i)

\* C18 witness: an invocation called with another input replayed the migrated
\* output of the first, response for response.
ReplayedMigratedOutput ==
    \E i, j \in Invs, c \in Slots :
        /\ i # j /\ pc[i] = "done" /\ pc[j] = "done" /\ Happened(i, "set")
        /\ req[i].input # req[j].input
        /\ ValueHit(j, c) /\ ShortCircuited(j, c)
        /\ Sends(i)[1].output.via = "migration" /\ Sends(j) = Sends(i)

\* No requestCache call of the invocation has returned an entry: the handler made
\* no call, or its calls threw or have not been answered.
NeverEngaged(i) == \A c \in Slots : calls[i][c].st # "returned"
\* The handler failed before any of its requestCache calls had returned an entry.
FailedUnengaged(i) == settled[i].how = "threw" /\ settled[i].held = NoKey

\* C19 (as claimed): an invocation whose handler made no requestCache call, or
\* whose handler failed before a requestCache call of it returned an entry, calls
\* neither set nor setError, whether it answers 200 or 500, and leaves the dedup
\* state of every key as it was: it writes no outcome and is returned no entry (the
\* return of an entry puts its key in flight).
NoWriteWithoutEngagement ==
    \A i \in Invs :
        (NoCalls(i) \/ FailedUnengaged(i)) =>
            /\ ~Happened(i, "set") /\ ~Happened(i, "setError")
            /\ writing[i] = NoKey /\ pc[i] \notin {"set", "setError"}
            /\ inlineCache[i] = NoKey /\ NeverEngaged(i)

====
